---- MODULE Spec2Model ----
(***************************************************************************)
(* Model of GrowingPacker (src/js/packer.growing.js): a binary tree bin    *)
(* packer whose root starts from the first block and the configured        *)
(* constraint and grows right or down when no free node fits a block.      *)
(*                                                                         *)
(* A behaviour is the life of one packer object: any number of init calls, *)
(* then one fit call, executed one loop iteration per step.  fit rebuilds  *)
(* self.root from scratch and overwrites block.fit of every block, so a    *)
(* later fit call behaves as a first one on the blocks it is handed.       *)
(***************************************************************************)
EXTENDS Integers, Sequences, FiniteSets

\* ---------------------------------------------------------------- bounds
MaxBlocks == 2      \* longest block list handed to fit
MaxDim    == 2      \* largest unpadded block width / height (0 included)
MaxSize   == 2      \* largest maxConstrainedSize handed to init (1..MaxSize)
MaxGap    == 1      \* largest explicit _packElemGap handed to init (0..MaxGap)

\* ------------------------------------------------- JavaScript value model
\* Every number of a run is >= 0, so -1 is free to encode the two JavaScript
\* values that are not numbers here: undefined (a variable never assigned)
\* and NaN (undefined + number).  Both make every comparison false and turn
\* every sum into NaN, which is all the code does with them.
NaN == -1

IsNum(v) == v # NaN

\* a + b
Add(a, b) == IF IsNum(a) /\ IsNum(b) THEN a + b ELSE NaN

\* a - b
Sub(a, b) == IF IsNum(a) /\ IsNum(b) THEN a - b ELSE NaN

\* a <= b
Leq(a, b) == IsNum(a) /\ IsNum(b) /\ a <= b

\* a >= b
Geq(a, b) == IsNum(a) /\ IsNum(b) /\ a >= b

\* (v || v === 0)
TruthyOrZero(v) == IsNum(v)

\* the default gap of init, and the fallback padding of addPaddingToBlocks
DefaultGap     == 10
DefaultPadding == 10

\* ------------------------------------------------------------------ state
VARIABLES
  growthDirection,     \* "undefined" until init, then the _growthDirection given
  maxConstrainedSize,  \* NaN (undefined) until init
  container,           \* TRUE iff init found a container element
  packElemGap,         \* NaN (undefined) until init
  containerWidth,      \* container.style.width: <<>> until set, else <<n, "px">>
  given,               \* the block sizes as handed to fit, before padding
  blocks,              \* the caller's block array: records [w, h, fit]
  root,                \* self.root: the tree, NoRoot before fit
  n,                   \* loop index of fit (1-based)
  pc,                  \* "new": fit not called; "loop": inside fit; "done"
  lastOp,              \* what the last loop iteration did with its block
  calls                \* calls made by the last loop iteration: top-level
                       \* findNode calls, growRight/growDown calls, splitNode calls

vars == <<growthDirection, maxConstrainedSize, container, packElemGap,
          containerWidth, given, blocks, root, n, pc, lastOp, calls>>

\* block.fit: absent, null, or the node the block was put in.  x, y, w, h of
\* a node never change after it is created, so they are kept by value.
NoFit   == [kind |-> "undefined"]
NullFit == [kind |-> "null"]
NodeFit(node) == [kind |-> "node", x |-> node.x, y |-> node.y,
                  w |-> node.w, h |-> node.h]

NoRoot == [kind |-> "undefined"]

NoCalls == [finds |-> 0, grows |-> 0, splits |-> 0]

\* a node literal without .used / .down / .right
FreeNode(x, y, w, h) == [used |-> FALSE, x |-> x, y |-> y, w |-> w, h |-> h]

\* ------------------------------------------------------------------ inputs
Shapes == [w : 0..MaxDim, h : 0..MaxDim]

BlockLists == UNION {[1..k -> Shapes] : k \in 0..MaxBlocks}

Directions == {"right", "down"}

\* _packElemGap: omitted (undefined) or a number
GapArgs == {NaN} \cup 0..MaxGap

\* ------------------------------------------------------------------- init
Init ==
  /\ growthDirection = "undefined"
  /\ maxConstrainedSize = NaN
  /\ container = FALSE
  /\ packElemGap = NaN
  /\ containerWidth = <<>>
  /\ given = <<>>
  /\ blocks = <<>>
  /\ root = NoRoot
  /\ n = 0
  /\ pc = "new"
  /\ lastOp = "none"
  /\ calls = NoCalls

\* self.init(_growthDirection, _maxConstrainedSize, _containerElement, _packElemGap)
init(_growthDirection, _maxConstrainedSize, _containerElement, _packElemGap) ==
  /\ pc = "new"
  /\ growthDirection' = _growthDirection
  /\ maxConstrainedSize' = _maxConstrainedSize
  /\ container' = _containerElement
  /\ packElemGap' = IF TruthyOrZero(_packElemGap) THEN _packElemGap ELSE DefaultGap
  /\ UNCHANGED <<containerWidth, given, blocks, root, n, pc, lastOp, calls>>

\* ------------------------------------------------------ addPaddingToBlocks
Padding == IF TruthyOrZero(packElemGap) THEN packElemGap * 2 ELSE DefaultPadding

addPaddingToBlocks(bs) ==
  [i \in 1..Len(bs) |-> [w |-> Add(bs[i].w, Padding),
                         h |-> Add(bs[i].h, Padding),
                         fit |-> NoFit]]

\* ---------------------------------------------------------------- findNode
\* The result names the node found by its path from the searched node.
NotFound == [ok |-> FALSE, path |-> <<>>]

Found(path) == [ok |-> TRUE, path |-> path]

\* variant: the fit test looks at the width alone
RECURSIVE findNode_widthOnly(_, _, _)
findNode_widthOnly(node, blockWidth, blockHeight) ==
  IF node.used
    THEN LET r == findNode_widthOnly(node.right, blockWidth, blockHeight) IN
         IF r.ok THEN Found(<<"right">> \o r.path)
         ELSE LET d == findNode_widthOnly(node.down, blockWidth, blockHeight) IN
              IF d.ok THEN Found(<<"down">> \o d.path) ELSE NotFound
    ELSE IF Leq(blockWidth, node.w)
           THEN Found(<<>>)
           ELSE NotFound

\* variant: the down subtree is searched before the right subtree
RECURSIVE findNode_downFirst(_, _, _)
findNode_downFirst(node, blockWidth, blockHeight) ==
  IF node.used
    THEN LET d == findNode_downFirst(node.down, blockWidth, blockHeight) IN
         IF d.ok THEN Found(<<"down">> \o d.path)
         ELSE LET r == findNode_downFirst(node.right, blockWidth, blockHeight) IN
              IF r.ok THEN Found(<<"right">> \o r.path) ELSE NotFound
    ELSE IF Leq(blockWidth, node.w) /\ Leq(blockHeight, node.h)
           THEN Found(<<>>)
           ELSE NotFound

\* variant: a free node must be strictly larger than the block
RECURSIVE findNode_strictlyLarger(_, _, _)
findNode_strictlyLarger(node, blockWidth, blockHeight) ==
  IF node.used
    THEN LET r == findNode_strictlyLarger(node.right, blockWidth, blockHeight) IN
         IF r.ok THEN Found(<<"right">> \o r.path)
         ELSE LET d == findNode_strictlyLarger(node.down, blockWidth, blockHeight) IN
              IF d.ok THEN Found(<<"down">> \o d.path) ELSE NotFound
    ELSE IF /\ IsNum(node.w) /\ IsNum(node.h)
            /\ blockWidth < node.w /\ blockHeight < node.h
           THEN Found(<<>>)
           ELSE NotFound

RECURSIVE findNode(_, _, _)
findNode(node, blockWidth, blockHeight) ==
  IF node.used
    THEN LET r == findNode(node.right, blockWidth, blockHeight) IN
         IF r.ok THEN Found(<<"right">> \o r.path)
         ELSE LET d == findNode(node.down, blockWidth, blockHeight) IN
              IF d.ok THEN Found(<<"down">> \o d.path) ELSE NotFound
    ELSE IF Leq(blockWidth, node.w) /\ Leq(blockHeight, node.h)
           THEN Found(<<>>)
           ELSE NotFound

RECURSIVE NodeAt(_, _)
NodeAt(node, path) ==
  IF path = <<>> THEN node
  ELSE IF Head(path) = "right" THEN NodeAt(node.right, Tail(path))
       ELSE NodeAt(node.down, Tail(path))

\* the tree with the node at path replaced (the in-place mutation of a node)
RECURSIVE ReplaceAt(_, _, _)
ReplaceAt(node, path, new) ==
  IF path = <<>> THEN new
  ELSE IF Head(path) = "right"
         THEN [node EXCEPT !.right = ReplaceAt(node.right, Tail(path), new)]
         ELSE [node EXCEPT !.down = ReplaceAt(node.down, Tail(path), new)]

\* --------------------------------------------------------------- splitNode
\* variant: the right child starts at the node's own x
splitNode_rightAtX(node, w, h) ==
  [used  |-> TRUE, x |-> node.x, y |-> node.y, w |-> node.w, h |-> node.h,
   down  |-> FreeNode(node.x, Add(node.y, h), node.w, Sub(node.h, h)),
   right |-> FreeNode(node.x, node.y, Sub(node.w, w), h)]

\* variant: the down child keeps the whole height of the node
splitNode_downFullHeight(node, w, h) ==
  [used  |-> TRUE, x |-> node.x, y |-> node.y, w |-> node.w, h |-> node.h,
   down  |-> FreeNode(node.x, Add(node.y, h), node.w, node.h),
   right |-> FreeNode(Add(node.x, w), node.y, Sub(node.w, w), h)]

\* variant: the right remainder runs the whole height of the node
splitNode_rightFullHeight(node, w, h) ==
  [used  |-> TRUE, x |-> node.x, y |-> node.y, w |-> node.w, h |-> node.h,
   down  |-> FreeNode(node.x, Add(node.y, h), node.w, Sub(node.h, h)),
   right |-> FreeNode(Add(node.x, w), node.y, Sub(node.w, w), node.h)]

\* variant: the remainders are taken the wrong way round
splitNode_swappedRemainders(node, w, h) ==
  [used  |-> TRUE, x |-> node.x, y |-> node.y, w |-> node.w, h |-> node.h,
   down  |-> FreeNode(node.x, Add(node.y, h), node.w, Sub(h, node.h)),
   right |-> FreeNode(Add(node.x, w), node.y, Sub(w, node.w), h)]

splitNode(node, w, h) ==
  [used  |-> TRUE, x |-> node.x, y |-> node.y, w |-> node.w, h |-> node.h,
   down  |-> FreeNode(node.x, Add(node.y, h), node.w, Sub(node.h, h)),
   right |-> FreeNode(Add(node.x, w), node.y, Sub(node.w, w), h)]

\* find + split in a tree: the new tree and the value returned for block.fit
FindAndSplit(tree, w, h) ==
  LET f == findNode(tree, w, h) IN
  IF f.ok
    THEN [root |-> ReplaceAt(tree, f.path, splitNode(NodeAt(tree, f.path), w, h)),
          fit  |-> NodeFit(NodeAt(tree, f.path)), finds |-> 1, splits |-> 1]
    ELSE [root |-> tree, fit |-> NullFit, finds |-> 1, splits |-> 0]

\* ---------------------------------------------------- growRight / growDown
\* variant: the new root keeps the old width
growRight_noWiden(w, h) ==
  LET newRoot == [used  |-> TRUE, x |-> 0, y |-> 0,
                  w     |-> root.w, h |-> root.h,
                  down  |-> root,
                  right |-> FreeNode(root.w, 0, w, root.h)]
      r == FindAndSplit(newRoot, w, h)
  IN [root |-> r.root, fit |-> r.fit, op |-> "growRight",
      finds |-> r.finds, grows |-> 1, splits |-> r.splits,
      containerWidth |-> IF container THEN <<Add(newRoot.w, w), "px">>
                                      ELSE containerWidth]

\* variant: the new root is as wide as the block alone
growRight_blockWidth(w, h) ==
  LET newRoot == [used  |-> TRUE, x |-> 0, y |-> 0,
                  w     |-> w, h |-> root.h,
                  down  |-> root,
                  right |-> FreeNode(root.w, 0, w, root.h)]
      r == FindAndSplit(newRoot, w, h)
  IN [root |-> r.root, fit |-> r.fit, op |-> "growRight",
      finds |-> r.finds, grows |-> 1, splits |-> r.splits,
      containerWidth |-> IF container THEN <<Add(newRoot.w, w), "px">>
                                      ELSE containerWidth]

\* variant: the new strip is as wide as the old root
growRight_stripOldWidth(w, h) ==
  LET newRoot == [used  |-> TRUE, x |-> 0, y |-> 0,
                  w     |-> Add(root.w, w), h |-> root.h,
                  down  |-> root,
                  right |-> FreeNode(root.w, 0, root.w, root.h)]
      r == FindAndSplit(newRoot, w, h)
  IN [root |-> r.root, fit |-> r.fit, op |-> "growRight",
      finds |-> r.finds, grows |-> 1, splits |-> r.splits,
      containerWidth |-> IF container THEN <<Add(newRoot.w, w), "px">>
                                      ELSE containerWidth]

growRight(w, h) ==
  LET newRoot == [used  |-> TRUE, x |-> 0, y |-> 0,
                  w     |-> Add(root.w, w), h |-> root.h,
                  down  |-> root,
                  right |-> FreeNode(root.w, 0, w, root.h)]
      r == FindAndSplit(newRoot, w, h)
  IN [root |-> r.root, fit |-> r.fit, op |-> "growRight",
      finds |-> r.finds, grows |-> 1, splits |-> r.splits,
      \* self.root is the new root already when the width is written
      containerWidth |-> IF container THEN <<Add(newRoot.w, w), "px">>
                                      ELSE containerWidth]

\* variant: growing down also widens the root by the block
growDown_widens(w, h) ==
  LET newRoot == [used  |-> TRUE, x |-> 0, y |-> 0,
                  w     |-> Add(root.w, w), h |-> Add(root.h, h),
                  down  |-> FreeNode(0, root.h, root.w, h),
                  right |-> root]
      r == FindAndSplit(newRoot, w, h)
  IN [root |-> r.root, fit |-> r.fit, op |-> "growDown",
      finds |-> r.finds, grows |-> 1, splits |-> r.splits,
      containerWidth |-> containerWidth]

growDown(w, h) ==
  LET newRoot == [used  |-> TRUE, x |-> 0, y |-> 0,
                  w     |-> root.w, h |-> Add(root.h, h),
                  down  |-> FreeNode(0, root.h, root.w, h),
                  right |-> root]
      r == FindAndSplit(newRoot, w, h)
  IN [root |-> r.root, fit |-> r.fit, op |-> "growDown",
      finds |-> r.finds, grows |-> 1, splits |-> r.splits,
      containerWidth |-> containerWidth]

\* ---------------------------------------------------------------- growNode
canGrowDown(w, h)  == Leq(w, root.w)

\* variant: a block exactly as tall as the root may not grow it rightward
canGrowRight_strict(w, h) == IsNum(h) /\ IsNum(root.h) /\ h < root.h

canGrowRight(w, h) == Leq(h, root.h)

shouldGrowRight(w, h) ==
  IF growthDirection = "right"
    THEN canGrowRight(w, h) /\ Geq(root.h, Add(root.w, w))
    ELSE FALSE

\* variant: the aspect heuristic for growing down applies in either direction
shouldGrowDown_anyDirection(w, h) ==
  canGrowDown(w, h) /\ Geq(root.w, Add(root.h, h))

shouldGrowDown(w, h) ==
  IF growthDirection = "right"
    THEN FALSE
    ELSE canGrowDown(w, h) /\ Geq(root.w, Add(root.h, h))

\* variant: the root is enlarged rightward before the block is found too big
growNode_growsBeforeReject(w, h) ==
  IF shouldGrowRight(w, h) THEN growRight(w, h)
  ELSE IF shouldGrowDown(w, h) THEN growDown(w, h)
  ELSE IF canGrowRight(w, h) THEN growRight(w, h)
  ELSE IF canGrowDown(w, h) THEN growDown(w, h)
  ELSE [root |-> growRight(w, h).root, fit |-> NullFit, op |-> "null",
        finds |-> 0, grows |-> 0, splits |-> 0,
        containerWidth |-> containerWidth]

\* variant: growth along the configured axis only, no fallback to the other
growNode_configuredAxisOnly(w, h) ==
  IF growthDirection = "right" /\ canGrowRight(w, h) THEN growRight(w, h)
  ELSE IF growthDirection # "right" /\ canGrowDown(w, h) THEN growDown(w, h)
  ELSE [root |-> root, fit |-> NullFit, op |-> "null",
        finds |-> 0, grows |-> 0, splits |-> 0,
        containerWidth |-> containerWidth]

growNode(w, h) ==
  IF shouldGrowRight(w, h) THEN growRight(w, h)
  ELSE IF shouldGrowDown(w, h) THEN growDown(w, h)
  ELSE IF canGrowRight(w, h) THEN growRight(w, h)
  ELSE IF canGrowDown(w, h) THEN growDown(w, h)
  ELSE [root |-> root, fit |-> NullFit, op |-> "null",
        finds |-> 0, grows |-> 0, splits |-> 0,
        containerWidth |-> containerWidth]

\* --------------------------------------------------------------------- fit
\* the root fit starts from, for the padded list bs
\* variant: the root starts at the size of the first block
InitialRoot_firstBlock(bs) ==
  FreeNode(0, 0, IF Len(bs) > 0 THEN bs[1].w ELSE 0,
                 IF Len(bs) > 0 THEN bs[1].h ELSE 0)

InitialRoot(bs) ==
  IF growthDirection = "right"
    THEN FreeNode(0, 0, IF Len(bs) > 0 THEN bs[1].w ELSE 0,
                        IF Len(bs) > 0 THEN maxConstrainedSize ELSE 0)
    ELSE FreeNode(0, 0, IF Len(bs) > 0 THEN maxConstrainedSize ELSE 0,
                        IF Len(bs) > 0 THEN bs[1].h ELSE 0)

\* fit(blocks) up to the loop: padding and the initial root
FitBegin(bs) ==
  /\ pc = "new"
  /\ given' = bs
  /\ blocks' = addPaddingToBlocks(bs)
  /\ root' = InitialRoot(blocks')
  /\ n' = 1
  /\ pc' = IF Len(bs) > 0 THEN "loop" ELSE "done"
  /\ lastOp' = "none"
  /\ calls' = NoCalls
  /\ UNCHANGED <<growthDirection, maxConstrainedSize, container, packElemGap,
                 containerWidth>>

\* variant: the free node is looked up a second time before it is split
PlaceBlock_searchesAgain(w, h) ==
  IF findNode(root, w, h).ok
    THEN LET r == FindAndSplit(root, w, h) IN
         [root |-> r.root, fit |-> r.fit, op |-> "split",
          finds |-> 1 + r.finds, grows |-> 0, splits |-> r.splits,
          containerWidth |-> containerWidth]
    ELSE LET g == growNode(w, h) IN [g EXCEPT !.finds = 1 + g.finds]

\* what one loop iteration does with block (w, h): the findNode call of fit,
\* then splitNode on the node found or growNode
PlaceBlock(w, h) ==
  IF findNode(root, w, h).ok
    THEN LET r == FindAndSplit(root, w, h) IN
         [root |-> r.root, fit |-> r.fit, op |-> "split",
          finds |-> r.finds, grows |-> 0, splits |-> r.splits,
          containerWidth |-> containerWidth]
    ELSE LET g == growNode(w, h) IN [g EXCEPT !.finds = 1 + g.finds]

\* one iteration of the loop of fit
FitBlock ==
  /\ pc = "loop"
  /\ LET r == PlaceBlock(blocks[n].w, blocks[n].h) IN
       /\ blocks' = [blocks EXCEPT ![n].fit = r.fit]
       /\ root' = r.root
       /\ containerWidth' = r.containerWidth
       /\ lastOp' = r.op
       /\ calls' = [finds |-> r.finds, grows |-> r.grows, splits |-> r.splits]
  /\ n' = n + 1
  /\ pc' = IF n = Len(blocks) THEN "done" ELSE "loop"
  /\ UNCHANGED <<growthDirection, maxConstrainedSize, container, packElemGap,
                 given>>

\* the calls a client can make on a packer that has not run fit yet
InitCall ==
  /\ pc = "new"
  /\ \E d \in Directions, m \in 1..MaxSize, c \in BOOLEAN, g \in GapArgs :
       init(d, m, c, g)

FitCall ==
  /\ pc = "new"
  /\ \E bs \in BlockLists : FitBegin(bs)

Next ==
  \/ InitCall
  \/ FitCall
  \/ FitBlock

Spec == Init /\ [][Next]_vars

\* ---------------------------------------------- longer lists, square blocks
\* A second specification of the same packer: fit is handed lists of up to
\* MaxSquares square blocks, so that a rejected block can be followed by
\* further blocks.
MaxSquares == 3

SquareLists ==
  UNION {[1..k -> {s \in Shapes : s.w = s.h}] : k \in 0..MaxSquares}

FitSquaresCall ==
  /\ pc = "new"
  /\ \E bs \in SquareLists : FitBegin(bs)

NextSquares ==
  \/ InitCall
  \/ FitSquaresCall
  \/ FitBlock

SpecSquares == Init /\ [][NextSquares]_vars

\* ================================================================ claims
\* init has run: a direction, a positive maxConstrainedSize and a gap >= 0
Configured == growthDirection # "undefined"

\* the blocks the loop has dealt with so far
Processed == 1..(n - 1)

Placed(i) == blocks[i].fit.kind = "node"

PlacedSet == {i \in DOMAIN blocks : Placed(i)}

Max(a, b) == IF a >= b THEN a ELSE b
Min(a, b) == IF a <= b THEN a ELSE b

\* [fit.x, fit.x + w) x [fit.y, fit.y + h) of blocks i and j share a point
Overlap(i, j) ==
  LET a == blocks[i]
      b == blocks[j]
  IN /\ Max(a.fit.x, b.fit.x) < Min(a.fit.x + a.w, b.fit.x + b.w)
     /\ Max(a.fit.y, b.fit.y) < Min(a.fit.y + a.h, b.fit.y + b.h)

\* C1: on a configured packer, the rectangles [fit.x, fit.x + w) x
\* [fit.y, fit.y + h) of any two distinct placed blocks, taken with the padded
\* sizes, do not overlap (at every point of the run, hence after fit).
C1_NoOverlap ==
  Configured => \A i, j \in PlacedSet : i # j => ~Overlap(i, j)

\* fit has returned with two placed blocks of positive area, the second one
\* placed by growing the root
C1_Witness ==
  /\ Configured /\ pc = "done" /\ Len(blocks) = 2
  /\ \A i \in 1..2 : Placed(i) /\ blocks[i].w > 0 /\ blocks[i].h > 0
  /\ lastOp \in {"growRight", "growDown"}

\* C2: after fit has returned, every placed block lies inside the final root:
\* fit.x >= 0, fit.y >= 0, fit.x + w <= root.w and fit.y + h <= root.h.
C2_InsideFinalRoot ==
  (Configured /\ pc = "done") =>
    \A i \in PlacedSet :
      /\ blocks[i].fit.x >= 0 /\ blocks[i].fit.y >= 0
      /\ blocks[i].fit.x + blocks[i].w <= root.w
      /\ blocks[i].fit.y + blocks[i].h <= root.h

\* fit has returned and a block sits against the right edge of a root that
\* has grown beyond its initial size
C2_Witness ==
  /\ Configured /\ pc = "done"
  /\ \E i \in PlacedSet :
       /\ blocks[i].fit.x > 0 /\ blocks[i].w > 0
       /\ blocks[i].fit.x + blocks[i].w = root.w
  /\ root.w > InitialRoot(blocks).w

\* C3: rejection law.  The block processed by an iteration ends with
\* fit = null exactly when, in the tree the iteration starts from, findNode
\* finds no free node and w > root.w and h > root.h; otherwise it ends with a
\* node as its placement.
C3_RejectionLaw ==
  [][(Configured /\ pc = "loop") =>
       LET b == blocks[n] IN
       /\ (blocks'[n].fit = NullFit) <=>
            (~findNode(root, b.w, b.h).ok /\ b.w > root.w /\ b.h > root.h)
       /\ (blocks'[n].fit # NullFit) => blocks'[n].fit.kind = "node"]_vars

\* fit has returned with one block placed and a later one rejected
C3_Witness ==
  /\ Configured /\ pc = "done"
  /\ \E i, j \in DOMAIN blocks : i < j /\ Placed(i) /\ blocks[j].fit = NullFit

\* C4 as stated: the placement of every placed block reports a width and a
\* height equal to the block's padded width and height.
C4_FitReportsPaddedSize ==
  Configured =>
    \A i \in PlacedSet :
      blocks[i].fit.w = blocks[i].w /\ blocks[i].fit.h = blocks[i].h

\* C4 amended: block.fit is the tree node the block was put in; it reports x
\* and y, and its w and h are the extents of that node as findNode found it,
\* which are at least the block's padded width and height.
C4_FitNodeCoversBlock ==
  Configured =>
    \A i \in PlacedSet :
      /\ blocks[i].fit.w >= blocks[i].w /\ blocks[i].fit.h >= blocks[i].h
      /\ blocks[i].fit.x >= 0 /\ blocks[i].fit.y >= 0

\* a placed block whose node is strictly larger than the block
C4_Witness ==
  /\ Configured
  /\ \E i \in PlacedSet :
       blocks[i].fit.h > blocks[i].h \/ blocks[i].fit.w > blocks[i].w

\* the gap C5 speaks of: the configured packElemGap, 10 when none is configured
C5_Gap == IF IsNum(packElemGap) THEN packElemGap ELSE DefaultGap

\* C5 as stated: fit adds exactly 2 x gap to the w and the h of every block,
\* the gap being 10 when init was called without a gap or was never called.
C5_PaddingIsTwiceGap ==
  (pc # "new") =>
    \A i \in DOMAIN blocks :
      /\ blocks[i].w = given[i].w + 2 * C5_Gap
      /\ blocks[i].h = given[i].h + 2 * C5_Gap

SortedByHeight == \A i, j \in DOMAIN blocks : i < j => blocks[i].h >= blocks[j].h

SortedByMax ==
  \A i, j \in DOMAIN blocks :
    i < j => Max(blocks[i].w, blocks[i].h) >= Max(blocks[j].w, blocks[j].h)

\* C6: on a configured packer, a list sorted largest first (by height, or by
\* max(width, height), descending) has no rejected block: every block the loop
\* has processed holds a placement.
C6_SortedNeverRejected ==
  (Configured /\ (SortedByHeight \/ SortedByMax)) =>
    \A i \in Processed : Placed(i)

\* fit has returned on a strictly decreasing list whose first block is taller
\* than the initial root and whose last block made the root grow
C6_Witness ==
  /\ Configured /\ pc = "done" /\ Len(blocks) = 2
  /\ SortedByHeight /\ SortedByMax
  /\ blocks[1].h > blocks[2].h /\ blocks[1].w > blocks[2].w
  /\ blocks[1].h > maxConstrainedSize
  /\ lastOp \in {"growRight", "growDown"}
  /\ \A i \in 1..2 : Placed(i)

\* the block of the coming iteration finds no free node: it triggers growNode
TriggersGrowth == pc = "loop" /\ ~findNode(root, blocks[n].w, blocks[n].h).ok

\* C7 as stated: with the direction configured as downward, a block that
\* triggers growth and has w <= root.w makes the root grow downward (root.h
\* increases by h, root.w unchanged) whatever the aspect heuristic says, and
\* the root grows rightward only when w > root.w and h <= root.h.
C7_DownwardGrowsDown ==
  [][(Configured /\ growthDirection # "right" /\ TriggersGrowth) =>
       LET b == blocks[n] IN
       /\ (b.w <= root.w) =>
            /\ lastOp' = "growDown"
            /\ root'.h = root.h + b.h /\ root'.w = root.w
       /\ (lastOp' = "growRight") => (b.w > root.w /\ b.h <= root.h)]_vars

\* every padded block height of the run is at most maxConstrainedSize
AllHeightsWithinConstraint ==
  \A i \in DOMAIN blocks : blocks[i].h <= maxConstrainedSize

C9_ContainerGetsNewWidth ==
  (lastOp = "growRight" /\ container) => containerWidth = <<root.w, "px">>

\* some iteration of the loop grows the root
GrowthEvent == pc = "loop" /\ lastOp' \in {"growRight", "growDown"}

\* C10 as stated: every growth event changes exactly one of root.w and
\* root.h, never both and never neither.
C10_ExactlyOneAxisChanges ==
  [][(Configured /\ GrowthEvent) =>
       ((root'.w # root.w) # (root'.h # root.h))]_vars

\* C10 amended: a growth event changes at most one of root.w and root.h:
\* growRight adds the block's w to root.w and leaves root.h, growDown adds the
\* block's h to root.h and leaves root.w; so exactly one changes unless the
\* block's extent along the growth axis is 0, and then neither does.
C10_AtMostOneAxisChanges ==
  [][(Configured /\ GrowthEvent) =>
       LET b == blocks[n] IN
       /\ (lastOp' = "growRight") =>
            (root'.w = root.w + b.w /\ root'.h = root.h)
       /\ (lastOp' = "growDown") =>
            (root'.h = root.h + b.h /\ root'.w = root.w)]_vars

\* a growRight for a block of width 0 has just run: the root is as before
C10_Witness ==
  /\ Configured /\ pc # "new" /\ n > 1
  /\ lastOp = "growRight" /\ blocks[n - 1].w = 0 /\ Placed(n - 1)

\* C11: monotonic growth.  Within one fit call no loop iteration, whatever it
\* does with its block (split of a free node, growth, rejection), makes
\* root.w or root.h smaller.
C11_RootNeverShrinks ==
  [][(Configured /\ pc = "loop") =>
       (root'.w >= root.w /\ root'.h >= root.h)]_vars

\* fit has returned with the root strictly wider and strictly taller than it
\* started
C11_Witness ==
  /\ Configured /\ pc = "done" /\ Len(blocks) = 2
  /\ root.w > InitialRoot(blocks).w /\ root.h > InitialRoot(blocks).h

\* the first block respects maxConstrainedSize along the constrained axis
FirstFitsInitialRoot ==
  IF growthDirection = "right" THEN blocks[1].h <= maxConstrainedSize
                               ELSE blocks[1].w <= maxConstrainedSize

C13_RejectionLeavesTree ==
  [][/\ (pc = "loop" /\ blocks'[n].fit = NullFit) =>
          /\ root' = root
          /\ n' = n + 1
          /\ pc' = IF n < Len(blocks) THEN "loop" ELSE "done"
     /\ (pc' = "done") =>
          \A i \in DOMAIN blocks' : blocks'[i].fit.kind \in {"node", "null"}]_vars

\* fit has returned; some block was rejected and a later block of the list
\* was placed by growing the root
C13_Witness ==
  /\ Configured /\ pc = "done"
  /\ lastOp \in {"growRight", "growDown"}
  /\ \E i, j \in DOMAIN blocks : i < j /\ blocks[i].fit = NullFit /\ Placed(j)

\* C14: on a configured packer a block whose padded width and height are both
\* zero is always placed, by a split of an existing free node and without any
\* growth of the root, wherever in the list it comes.
C14_ZeroBlockAlwaysFits ==
  [][(Configured /\ pc = "loop" /\ blocks[n].w = 0 /\ blocks[n].h = 0) =>
       /\ blocks'[n].fit.kind = "node"
       /\ lastOp' = "split" /\ calls'.grows = 0
       /\ root'.w = root.w /\ root'.h = root.h]_vars

\* a zero-size block has just been placed as the second block, after a first
\* block of positive area that filled its node
C14_Witness ==
  /\ Configured /\ n = 3 /\ lastOp = "split"
  /\ blocks[1].w > 0 /\ blocks[1].h > 0 /\ Placed(1)
  /\ blocks[2].w = 0 /\ blocks[2].h = 0 /\ Placed(2)

\* C15: whenever growNode calls growRight or growDown the call returns a node,
\* never null: the block is placed in the freshly attached strip, at
\* (old root.w, 0) after growRight and at (0, old root.h) after growDown, and
\* the old tree is kept untouched as the other child of the new root.
C15_GrowthPlacesInStrip ==
  [][GrowthEvent =>
       LET b == blocks[n]
           f == blocks'[n].fit
       IN /\ f.kind = "node"
          /\ calls'.splits = 1
          /\ (lastOp' = "growRight") =>
               /\ f.x = root.w /\ f.y = 0 /\ f.w = b.w /\ f.h = root.h
               /\ root'.down = root
          /\ (lastOp' = "growDown") =>
               /\ f.x = 0 /\ f.y = root.h /\ f.w = root.w /\ f.h = b.h
               /\ root'.right = root]_vars

\* a growDown has just placed a block below an old root that still has a free
\* node, which the search passed over because the block does not fit it
C15_Witness ==
  /\ Configured /\ n > 1 /\ lastOp = "growDown"
  /\ Placed(n - 1) /\ blocks[n - 1].fit.y > 0
  /\ ~root.right.used /\ root.right.w > 0 /\ root.right.h > 0

\* the free nodes of a subtree, each with its path, in the depth-first order
\* that visits a used node's right subtree entirely before its down subtree
RECURSIVE FreeLeaves(_, _)
FreeLeaves(node, path) ==
  IF node.used
    THEN FreeLeaves(node.right, Append(path, "right"))
         \o FreeLeaves(node.down, Append(path, "down"))
    ELSE <<[path |-> path, node |-> node]>>

\* those of the free nodes in leaves that are at least (w, h), in that order
Fitting(leaves, w, h) ==
  SelectSeq(leaves, LAMBDA l : w <= l.node.w /\ h <= l.node.h)

\* the paths of the free nodes of the tree that are at least (w, h)
FittingLeaves(tree, w, h) ==
  LET c == Fitting(FreeLeaves(tree, <<>>), w, h)
  IN [k \in 1..Len(c) |-> c[k].path]

\* the sizes findNode is asked about: any width and any height of the list
QueryWidths  == {0} \cup {blocks[i].w : i \in DOMAIN blocks}
QueryHeights == {0} \cup {blocks[i].h : i \in DOMAIN blocks}

\* C16: on the tree of any reachable state findNode(root, w, h) is null
\* exactly when no free node has node.w >= w and node.h >= h, and is otherwise
\* the first such free node in right-before-down depth-first order.
C16_FindNodeIsFirstFit ==
  (Configured /\ pc # "new") =>
    LET leaves == FreeLeaves(root, <<>>) IN
    \A w \in QueryWidths, h \in QueryHeights :
      LET c == Fitting(leaves, w, h) IN
      findNode(root, w, h) = IF c = <<>> THEN NotFound ELSE Found(c[1].path)

\* a block of the list fits two free nodes, one in the right subtree of the
\* root and one in its down subtree
C16_Witness ==
  /\ Configured /\ pc # "new" /\ root.used
  /\ \E i \in DOMAIN blocks :
       LET c == FittingLeaves(root, blocks[i].w, blocks[i].h) IN
       /\ Len(c) >= 2 /\ blocks[i].w > 0 /\ blocks[i].h > 0
       /\ Head(c[1]) = "right" /\ Head(c[Len(c)]) = "down"

\* every node of a tree, the root included
RECURSIVE AllNodes(_)
AllNodes(node) ==
  IF node.used THEN {node} \cup AllNodes(node.right) \cup AllNodes(node.down)
               ELSE {node}

UsedNodes(tree) == {nd \in AllNodes(tree) : nd.used}

Rect(nd) == <<nd.x, nd.y, nd.w, nd.h>>

\* down and right of nd are those splitNode(nd, w, h) makes
SplitWith(nd, w, h) ==
  /\ Rect(nd.down)  = <<nd.x, nd.y + h, nd.w, nd.h - h>>
  /\ Rect(nd.right) = <<nd.x + w, nd.y, nd.w - w, h>>

\* there is a size (w, h) with SplitWith(nd, w, h): right fixes the only
\* candidate, w = right.x - x and h = right.h
SplitGeometry(nd) == SplitWith(nd, nd.right.x - nd.x, nd.right.h)

\* down and right of nd are those growRight makes for a block of width w:
\* the old root and a strip beside it, both as tall as nd
GrowRightGeometry(nd) ==
  LET w == nd.right.w IN
  /\ Rect(nd.down)  = <<nd.x, nd.y, nd.w - w, nd.h>>
  /\ Rect(nd.right) = <<nd.x + nd.w - w, nd.y, w, nd.h>>

\* C17 as stated: every used node of the tree, roots created by growRight and
\* growDown included, has the children of a split by some size (w, h).
C17_SplitGeometryEverywhere ==
  (Configured /\ pc # "new") =>
    \A nd \in UsedNodes(root) : SplitGeometry(nd)

\* C17 amended: split geometry holds for every node made used by splitNode:
\* the node of every placed block, with the block's padded (w, h), and every
\* used node away from the origin.  A root made by growDown satisfies the
\* equations too (with w = 0, h = old root.h); a root made by growRight has
\* the old root as down and the strip as right instead.
C17_SplitGeometryOfSplitNodes ==
  (Configured /\ pc # "new") =>
    /\ \A i \in PlacedSet :
         \E nd \in UsedNodes(root) :
           /\ Rect(nd) = <<blocks[i].fit.x, blocks[i].fit.y,
                           blocks[i].fit.w, blocks[i].fit.h>>
           /\ SplitWith(nd, blocks[i].w, blocks[i].h)
    /\ \A nd \in UsedNodes(root) :
         /\ SplitGeometry(nd) \/ GrowRightGeometry(nd)
         /\ (nd.x # 0 \/ nd.y # 0) => SplitGeometry(nd)

\* a growRight has just made a root that is no split of any size, above an
\* old root that was split for a block of positive area
C17_Witness ==
  /\ Configured /\ lastOp = "growRight" /\ n = 3
  /\ ~SplitGeometry(root) /\ GrowRightGeometry(root)
  /\ root.down.used /\ SplitWith(root.down, blocks[1].w, blocks[1].h)
  /\ blocks[1].w > 0 /\ blocks[1].h > 0

\* C18: on a configured packer every node of the tree, in every reachable
\* state, has x >= 0, y >= 0, w >= 0 and h >= 0.
C18_NodesNonNegative ==
  (Configured /\ pc # "new") =>
    \A nd \in AllNodes(root) : nd.x >= 0 /\ nd.y >= 0 /\ nd.w >= 0 /\ nd.h >= 0

\* fit has returned on a tree that has grown and holds both a free node of
\* extent 0 x 0 and a free node of positive area
C18_Witness ==
  /\ Configured /\ pc = "done" /\ Len(blocks) = 2
  /\ root.w > InitialRoot(blocks).w \/ root.h > InitialRoot(blocks).h
  /\ \E nd \in AllNodes(root) : ~nd.used /\ nd.w = 0 /\ nd.h = 0
  /\ \E nd \in AllNodes(root) : ~nd.used /\ nd.w > 0 /\ nd.h > 0

\* C19 as stated: processing one block performs at most one search of the
\* tree from the root, at most one growth of the root and at most one split.
C19_AtMostOneSearch ==
  [][(pc = "loop") =>
       (calls'.finds <= 1 /\ calls'.grows <= 1 /\ calls'.splits <= 1)]_vars

\* C19 amended: fit ends after exactly one iteration per block (the index
\* goes up by one each time and the loop is left after the last block), and
\* an iteration performs at most one growth, at most one split, and one
\* search from the root plus a second one, in the enlarged tree, exactly when
\* it grows the root.
C19_BoundedWorkPerBlock ==
  [][(pc = "loop") =>
       /\ n \in 1..Len(blocks) /\ n' = n + 1
       /\ (pc' = "done") <=> (n = Len(blocks))
       /\ (pc' = "loop") <=> (n < Len(blocks))
       /\ calls'.grows <= 1 /\ calls'.splits <= 1
       /\ calls'.finds = 1 + calls'.grows]_vars

\* fit has returned from a two-block run whose last iteration searched the
\* old tree, grew the root and searched again
C19_Witness ==
  /\ pc = "done" /\ n = 3 /\ Configured
  /\ calls = [finds |-> 2, grows |-> 1, splits |-> 1]

\* the rectangles <<x, y, w, h>> of the free nodes of the tree, one per node
LeafRects ==
  LET ps == FreeLeaves(root, <<>>)
  IN [k \in 1..Len(ps) |-> Rect(ps[k].node)]

\* the rectangles of the placed blocks, with their padded sizes
BlockRects ==
  LET placed == SelectSeq(blocks, LAMBDA b : b.fit.kind = "node")
  IN [k \in 1..Len(placed) |->
        <<placed[k].fit.x, placed[k].fit.y, placed[k].w, placed[k].h>>]

Tiles == LeafRects \o BlockRects

\* the open rectangles a and b share a point
RectsOverlap(a, b) ==
  /\ Max(a[1], b[1]) < Min(a[1] + a[3], b[1] + b[3])
  /\ Max(a[2], b[2]) < Min(a[2] + a[4], b[2] + b[4])

RECURSIVE AreaSum(_)
AreaSum(rs) ==
  IF rs = <<>> THEN 0 ELSE Head(rs)[3] * Head(rs)[4] + AreaSum(Tail(rs))

\* C20: on a configured packer, at every point of the loop and after it, the
\* rectangles of the placed blocks (padded sizes) and of the free nodes of the
\* tree lie inside the root, no two of them overlap, and their areas add up to
\* root.w * root.h: together they cover the root exactly.
C20_Tiling ==
  (Configured /\ pc # "new" /\ Len(blocks) > 0) =>
    LET t == Tiles IN
    /\ \A k \in DOMAIN t :
         /\ t[k][1] >= 0 /\ t[k][2] >= 0 /\ t[k][3] >= 0 /\ t[k][4] >= 0
         /\ t[k][1] + t[k][3] <= root.w
         /\ t[k][2] + t[k][4] <= root.h
    /\ \A j, k \in DOMAIN t : j < k => ~RectsOverlap(t[j], t[k])
    /\ AreaSum(t) = root.w * root.h

\* fit has returned with two placed blocks of positive area, one after a
\* split and one after a growth, and free nodes of positive area left over
C20_Witness ==
  /\ Configured /\ pc = "done" /\ Len(BlockRects) = 2
  /\ root.used /\ root.down.used
  /\ AreaSum(BlockRects) > 0 /\ AreaSum(LeafRects) > 0
  /\ \A k \in DOMAIN BlockRects : BlockRects[k][3] * BlockRects[k][4] > 0
  /\ AreaSum(Tiles) = root.w * root.h

====
